---- MODULE Spec2Model ----
(***************************************************************************)
(* A model of roslibrust's ROS1 Publication (ros1/publisher.rs): the       *)
(* bounded publish queue, the fan-out task (publish_task), the acceptor    *)
(* task (tcp_accept_task), and the subscriber sockets they share.          *)
(***************************************************************************)
EXTENDS Integers, Sequences, FiniteSets, TLC

\* ------------------------------------------------------------------ bounds
\* Number of subscriber connections that ever reach the listener.
MaxConns == 2
\* Number of publish calls that get as far as the channel send.
MaxMsgs == 2
\* queue_size handed to Publication::new (capacity of the mpsc channel).
QueueSize == 1
\* Number of mpsc::Sender handles alive at once.
MaxSenders == 2

\* --------------------------------------------------------------- constants
\* What the wire of a socket carries: the publisher's connection header or a
\* message payload (a positive number, the rank of its enqueue).
HDR == 0
\* Option::None for md5sum and for last_message.
NoMd5 == "<none>"
NoMsg == 0

Conns == 1..MaxConns
Md5Values == {"m1", "m2", "*"}
\* A peer's connection header as tcpros::receive_header returns it: an error
\* (readable = FALSE) or a header whose md5sum is Some(value) or None.
NoHeader == [readable |-> FALSE, md5sum |-> NoMd5]
PeerHeaders ==
    {NoHeader} \cup {[readable |-> TRUE, md5sum |-> m] : m \in Md5Values \cup {NoMd5}}

VARIABLES
    latching,      \* responding_conn_header.latching
    localMd5,      \* responding_conn_header.md5sum (always Some)
    senders,       \* strong mpsc::Sender handles alive
    pubPc,         \* the publish call in flight: "idle" | "sending"
    pubResult,     \* what the last publish call returned
    nextMsg,       \* messages enqueued so far (the last one's rank)
    queue,         \* the mpsc channel's buffer
    fanPc,         \* publish_task: "recv" | "write" | "store" | "exited"
    fanCur,        \* msg_to_publish
    fanIdx,        \* stream_idx of the for loop
    toRemove,      \* streams_to_remove
    streams,       \* subscriber_streams (a Vec of sockets, by connection id)
    lastMessage,   \* last_message
    acceptPc,      \* tcp_accept_task's position
    accCur,        \* the stream the acceptor is handling (0: none)
    nConn,         \* streams accepted and not dropped again (they are 1..nConn)
    connHeader,    \* the header received on each stream
    broken,        \* the peer or the transport of the socket has failed
    wire,          \* what has been written to each socket, in order
    accPub,        \* history (AcceptRecorded): nextMsg when the stream being handled was accepted
    accDeq,        \* history (ReplyRecorded): messages dequeued when the header was written (-1: not)
    pushedDeq,     \* history: messages dequeued when the socket was pushed (-1: not pushed)
    unregSpawned,  \* unregister tasks spawned by publish_task
    unregDone,     \* unregister calls that have completed
    dropped,       \* the node has disposed of the Publication
    \* resolve_dependency_graph (roslibrust_codegen)
    messages,             \* the parsed messages handed to the call
    services,             \* the parsed services handed to the call
    unresolved_messages,  \* the worklist of MessageMetadata
    resolved_messages,    \* the BTreeMap of resolved messages, in key order
    resolved_services,    \* the resolved services
    genPc,                \* where the call is, or how it has ended
    msg_names,            \* the names listed in the unresolved-dependencies error
    iterations,           \* history: turns of the while loop taken so far
    \* Time and Duration (roslibrust_codegen::integral_types)
    time_op,              \* the operator applied: "none" | "add" | "sub"
    time_self,            \* its left operand, a Time
    time_rhs,             \* its right operand: a Duration (add) or a Time (sub)
    time_out              \* what it returned

vars == <<latching, localMd5, senders, pubPc, pubResult, nextMsg, queue, fanPc,
          fanCur, fanIdx, toRemove, streams, lastMessage, acceptPc, accCur,
          nConn, connHeader, broken, wire, accPub, accDeq,
          pushedDeq, unregSpawned, unregDone, dropped, messages, services,
          unresolved_messages, resolved_messages, resolved_services, genPc,
          msg_names, iterations, time_op, time_self, time_rhs, time_out>>

pubVars == <<senders, pubPc, pubResult, nextMsg>>
fanVars == <<fanPc, fanCur, fanIdx, toRemove>>
accVars == <<acceptPc, accCur>>
connVars == <<nConn, connHeader, broken, accPub, accDeq>>
cfgVars == <<latching, localMd5>>
sockVars == <<wire, pushedDeq>>
unregVars == <<unregSpawned, unregDone, dropped>>
genVars == <<messages, services, unresolved_messages, resolved_messages,
             resolved_services, genPc, msg_names, iterations>>
timeVars == <<time_op, time_self, time_rhs, time_out>>
runtimeVars == <<latching, localMd5, senders, pubPc, pubResult, nextMsg, queue,
                 fanPc, fanCur, fanIdx, toRemove, streams, lastMessage, acceptPc,
                 accCur, nConn, connHeader, broken, wire, accPub, accDeq, pushedDeq,
                 unregSpawned, unregDone, dropped>>

\* ------------------------------------------------------------------ helpers
\* Vec::remove(idx) with a 0-based index.
VecRemove(v, idx) == SubSeq(v, 1, idx) \o SubSeq(v, idx + 2, Len(v))

\* streams_to_remove.into_iter().enumerate().for_each(|(removed_cnt, stream_idx)|
\*     streams.remove(stream_idx - removed_cnt))
RECURSIVE RemoveAll(_, _, _)
RemoveAllNoShift(v, rem, removed_cnt) ==
    IF rem = <<>> THEN v
    ELSE RemoveAll(VecRemove(v, Head(rem)), Tail(rem), removed_cnt + 1)

RemoveAll(v, rem, removed_cnt) ==
    IF rem = <<>> THEN v
    ELSE RemoveAll(VecRemove(v, Head(rem) - removed_cnt), Tail(rem), removed_cnt + 1)

\* Variants of the md5 check: the comparison the source has commented out
\* (a local "*" matches anything), a comparison inverted, and one that does
\* not special-case the peer's "*".
Md5RejectsSymmetric(connection_md5sum, local_md5sum) ==
    /\ connection_md5sum # NoMd5
    /\ connection_md5sum # "*"
    /\ local_md5sum # NoMd5
    /\ local_md5sum # "*"
    /\ connection_md5sum # local_md5sum

Md5RejectsEqual(connection_md5sum, local_md5sum) ==
    /\ connection_md5sum # NoMd5
    /\ connection_md5sum # "*"
    /\ local_md5sum # NoMd5
    /\ connection_md5sum = local_md5sum

Md5RejectsNoWildcard(connection_md5sum, local_md5sum) ==
    /\ connection_md5sum # NoMd5
    /\ local_md5sum # NoMd5
    /\ connection_md5sum # local_md5sum

\* The md5 check of tcp_accept_task: TRUE when the connection is refused.

Md5Rejects(connection_md5sum, local_md5sum) ==
    /\ connection_md5sum # NoMd5
    /\ connection_md5sum # "*"
    /\ local_md5sum # NoMd5
    /\ connection_md5sum # local_md5sum

\* No call of resolve_dependency_graph is under way.
GenIdle ==
    /\ messages = <<>>
    /\ services = <<>>
    /\ unresolved_messages = <<>>
    /\ resolved_messages = <<>>
    /\ resolved_services = <<>>
    /\ genPc = "idle"
    /\ msg_names = <<>>
    /\ iterations = 0

\* No operator of Time has been applied.
NoOperand == [none |-> TRUE]
TimeIdle ==
    /\ time_op = "none"
    /\ time_self = [secs |-> 0, nsecs |-> 0]
    /\ time_rhs = NoOperand
    /\ time_out = NoOperand

\* -------------------------------------------------------------------- Init
\* Publication::new: an empty channel, no streams, no last message, both
\* tasks spawned, one Sender returned.
Init ==
    /\ latching \in BOOLEAN
    /\ localMd5 \in {"m1", "*"}
    /\ senders = 1
    /\ pubPc = "idle"
    /\ pubResult = "none"
    /\ nextMsg = 0
    /\ queue = <<>>
    /\ fanPc = "recv"
    /\ fanCur = NoMsg
    /\ fanIdx = 0
    /\ toRemove = <<>>
    /\ streams = <<>>
    /\ lastMessage = NoMsg
    /\ acceptPc = "accept"
    /\ accCur = 0
    /\ nConn = 0
    /\ connHeader = [c \in Conns |-> NoHeader]
    /\ broken = [c \in Conns |-> FALSE]
    /\ wire = [c \in Conns |-> <<>>]
    /\ accPub = 0
    /\ accDeq = -1
    /\ pushedDeq = [c \in Conns |-> -1]
    /\ unregSpawned = 0
    /\ unregDone = 0
    /\ dropped = FALSE
    /\ GenIdle
    /\ TimeIdle

\* --------------------------------------------------------- the user's side
\* Publication::get_sender: another Publisher for the topic, while one lives.
GetSender ==
    /\ senders > 0
    /\ senders < MaxSenders
    /\ senders' = senders + 1
    /\ UNCHANGED <<pubPc, pubResult, nextMsg, queue, fanVars, streams, lastMessage,
                   accVars, connVars, sockVars, cfgVars, unregVars,
                   genVars, timeVars>>

\* A Publisher is dropped (not the one whose publish call is in flight).
DropSender ==
    /\ senders > 0
    /\ pubPc = "sending" => senders > 1
    /\ senders' = senders - 1
    /\ UNCHANGED <<pubPc, pubResult, nextMsg, queue, fanVars, streams, lastMessage,
                   accVars, connVars, sockVars, cfgVars, unregVars,
                   genVars, timeVars>>

\* Publisher::publish: the data is serialized and the call reaches
\* self.sender.send(data).
PublishSend ==
    /\ senders > 0
    /\ pubPc = "idle"
    /\ nextMsg < MaxMsgs
    /\ pubPc' = "sending"
    /\ UNCHANGED <<senders, pubResult, nextMsg, queue, fanVars, streams, lastMessage,
                   accVars, connVars, sockVars, cfgVars, unregVars,
                   genVars, timeVars>>

\* send(data).await completes: the channel has room, the message is queued
\* and publish returns Ok(()).
PublishEnqueueUnbounded ==
    /\ pubPc = "sending"
    /\ queue' = IF Len(queue) < QueueSize THEN Append(queue, nextMsg + 1)
                ELSE Append(SubSeq(queue, 1, Len(queue) - 1), nextMsg + 1)
    /\ nextMsg' = nextMsg + 1
    /\ pubPc' = "idle"
    /\ pubResult' = "Ok"
    /\ UNCHANGED <<senders, fanVars, streams, lastMessage, accVars, connVars,
                   sockVars, cfgVars, unregVars,
                   genVars, timeVars>>

PublishEnqueue ==
    /\ pubPc = "sending"
    /\ Len(queue) < QueueSize
    /\ queue' = Append(queue, nextMsg + 1)
    /\ nextMsg' = nextMsg + 1
    /\ pubPc' = "idle"
    /\ pubResult' = "Ok"
    /\ UNCHANGED <<senders, fanVars, streams, lastMessage, accVars, connVars,
                   sockVars, cfgVars, unregVars,
                   genVars, timeVars>>

\* Publisher::publish where roslibrust_serde_rosmsg::to_vec(&data) returns an
\* error: the `?` returns PublisherError::SerializingError before the send.
PublishSerializeFailSends ==
    /\ senders > 0
    /\ pubPc = "idle"
    /\ Len(queue) < QueueSize
    /\ nextMsg < MaxMsgs
    /\ queue' = Append(queue, nextMsg + 1)
    /\ nextMsg' = nextMsg + 1
    /\ pubResult' = "SerializingError"
    /\ UNCHANGED <<senders, pubPc, fanVars, streams, lastMessage,
                   accVars, connVars, sockVars, cfgVars, unregVars,
                   genVars, timeVars>>

PublishSerializeFail ==
    /\ senders > 0
    /\ pubPc = "idle"
    /\ pubResult' = "SerializingError"
    /\ UNCHANGED <<senders, pubPc, nextMsg, queue, fanVars, streams, lastMessage,
                   accVars, connVars, sockVars, cfgVars, unregVars,
                   genVars, timeVars>>

\* ------------------------------------------------------------ publish_task
\* rx.recv() returns Some(msg): the task takes the streams' write lock (the
\* acceptor holds it only for its push, which does not await) and starts the
\* for loop; with no stream the loop and the removal are over at once.
FanOutRecvPeek ==
    /\ fanPc = "recv"
    /\ queue # <<>>
    /\ fanCur' = Head(queue)
    /\ queue' = queue
    /\ fanIdx' = 0
    /\ toRemove' = <<>>
    /\ fanPc' = IF streams = <<>> THEN "store" ELSE "write"
    /\ UNCHANGED <<pubVars, streams, lastMessage, accVars, connVars, sockVars,
                   cfgVars, unregVars,
                   genVars, timeVars>>

FanOutRecv ==
    /\ fanPc = "recv"
    /\ queue # <<>>
    /\ fanCur' = Head(queue)
    /\ queue' = Tail(queue)
    /\ fanIdx' = 0
    /\ toRemove' = <<>>
    /\ fanPc' = IF streams = <<>> THEN "store" ELSE "write"
    /\ UNCHANGED <<pubVars, streams, lastMessage, accVars, connVars, sockVars,
                   cfgVars, unregVars,
                   genVars, timeVars>>

\* let mut streams = subscriber_streams.write().await: the fan-out task holds
\* the guard from the start of the Some arm to its end, the await on the
\* last message's lock included.
StreamsWriteGuard == fanPc \in {"write", "store"}

\* The guard of last_message.read().await lives in the if let: the acceptor
\* holds it while it writes the latched message, and has dropped it when it
\* asks for the streams' lock.
LastMessageReadGuardKept == acceptPc \in {"latch_write", "push"}

LastMessageReadGuard == acceptPc = "latch_write"

\* One iteration of the for loop: stream.write_all(&msg_to_publish).await.
\* fails: the transport returns an error (it keeps doing so once it has).
\* After the last iteration the failed streams are removed, before the task
\* awaits again.
FanOutWrite ==
    /\ fanPc = "write"
    /\ fanIdx < Len(streams)
    /\ LET c == streams[fanIdx + 1]
           last == fanIdx + 1 = Len(streams)
       IN  \E fails \in BOOLEAN :
             /\ broken[c] => fails
             /\ wire' = IF fails THEN wire
                        ELSE [wire EXCEPT ![c] = Append(@, fanCur)]
             /\ broken' = IF fails THEN [broken EXCEPT ![c] = TRUE] ELSE broken
             /\ LET rem == IF fails THEN Append(toRemove, fanIdx) ELSE toRemove
                IN  IF last
                    THEN /\ streams' = RemoveAll(streams, rem, 0)
                         /\ toRemove' = <<>>
                         /\ fanIdx' = 0
                         /\ fanPc' = "store"
                    ELSE /\ streams' = streams
                         /\ toRemove' = rem
                         /\ fanIdx' = fanIdx + 1
                         /\ fanPc' = "write"
    /\ UNCHANGED <<pubVars, queue, fanCur, lastMessage, accVars,
                   nConn, connHeader, accPub, accDeq, pushedDeq, cfgVars,
                   unregVars,
                   genVars, timeVars>>

\* *last_message.write().await = Some(msg_to_publish): waits for the
\* acceptor's read guard; the streams guard is dropped at the end of the arm.
FanOutStoreIfLatching ==
    /\ fanPc = "store"
    /\ ~LastMessageReadGuard
    /\ lastMessage' = IF latching THEN fanCur ELSE lastMessage
    /\ fanPc' = "recv"
    /\ UNCHANGED <<pubVars, queue, fanCur, fanIdx, toRemove, streams, accVars,
                   connVars, sockVars, cfgVars, unregVars,
                   genVars, timeVars>>

FanOutStore ==
    /\ fanPc = "store"
    /\ ~LastMessageReadGuard
    /\ lastMessage' = fanCur
    /\ fanPc' = "recv"
    /\ UNCHANGED <<pubVars, queue, fanCur, fanIdx, toRemove, streams, accVars,
                   connVars, sockVars, cfgVars, unregVars,
                   genVars, timeVars>>

\* rx.recv() returns None: every Sender is gone and the buffer is empty. The
\* task spawns the unregister call and breaks out of the loop.
FanOutClosedEarly ==
    /\ fanPc = "recv"
    /\ senders = 0
    /\ unregSpawned' = unregSpawned + 1
    /\ fanPc' = "exited"
    /\ UNCHANGED <<pubVars, queue, fanCur, fanIdx, toRemove, streams, lastMessage,
                   accVars, connVars, sockVars, cfgVars, unregDone, dropped,
                   genVars, timeVars>>

FanOutClosed ==
    /\ fanPc = "recv"
    /\ queue = <<>>
    /\ senders = 0
    /\ unregSpawned' = unregSpawned + 1
    /\ fanPc' = "exited"
    /\ UNCHANGED <<pubVars, queue, fanCur, fanIdx, toRemove, streams, lastMessage,
                   accVars, connVars, sockVars, cfgVars, unregDone, dropped,
                   genVars, timeVars>>

\* The spawned task: nh_copy.unregister_publisher(&topic).await. The node
\* disposes of the Publication, whose drop aborts both ChildTasks, the
\* publish task among them.
UnregisterPublisher ==
    /\ unregDone < unregSpawned
    /\ ~dropped
    /\ dropped' = TRUE
    /\ acceptPc' = IF acceptPc = "panicked" THEN acceptPc ELSE "aborted"
    /\ UNCHANGED <<pubVars, queue, fanVars, streams, lastMessage, accCur,
                   connVars, sockVars, cfgVars, unregSpawned, unregDone,
                   genVars, timeVars>>

\* The call returns to the spawned task, which ends. Awaited in the publish
\* task instead, the call would be cancelled by the drop it has caused.
UnregisterReturnAwaited ==
    /\ unregDone < unregSpawned
    /\ dropped
    /\ ~dropped
    /\ unregDone' = unregDone + 1
    /\ UNCHANGED <<pubVars, queue, fanVars, streams, lastMessage, accVars,
                   connVars, sockVars, cfgVars, unregSpawned, dropped,
                   genVars, timeVars>>

UnregisterReturn ==
    /\ unregDone < unregSpawned
    /\ dropped
    /\ unregDone' = unregDone + 1
    /\ UNCHANGED <<pubVars, queue, fanVars, streams, lastMessage, accVars,
                   connVars, sockVars, cfgVars, unregSpawned, dropped,
                   genVars, timeVars>>

\* --------------------------------------------------------- tcp_accept_task
\* tcp_listener.accept().await returns a subscriber's connection, then
\* tcpros::receive_header reads its header (h: what arrives) and the md5sum
\* is compared.
Accept ==
    /\ acceptPc = "accept"
    /\ nConn < MaxConns
    /\ \E h \in PeerHeaders :
         /\ connHeader' = [connHeader EXCEPT ![nConn + 1] = h]
         /\ acceptPc' = IF ~h.readable THEN "shutdown"
                        ELSE IF Md5Rejects(h.md5sum, localMd5) THEN "shutdown"
                        ELSE "reply"
    /\ accDeq' = -1
    /\ nConn' = nConn + 1
    /\ accCur' = nConn + 1
    /\ UNCHANGED <<pubVars, queue, fanVars, streams, lastMessage, broken, accPub,
                   sockVars, cfgVars, unregVars,
                   genVars, timeVars>>

\* The same step, with the history of what had been published when the
\* connection was accepted.
AcceptRecorded ==
    /\ acceptPc = "accept"
    /\ nConn < MaxConns
    /\ \E h \in PeerHeaders :
         /\ connHeader' = [connHeader EXCEPT ![nConn + 1] = h]
         /\ acceptPc' = IF ~h.readable THEN "shutdown"
                        ELSE IF Md5Rejects(h.md5sum, localMd5) THEN "shutdown"
                        ELSE "reply"
    /\ accPub' = nextMsg
    /\ accDeq' = -1
    /\ nConn' = nConn + 1
    /\ accCur' = nConn + 1
    /\ UNCHANGED <<pubVars, queue, fanVars, streams, lastMessage, broken,
                   sockVars, cfgVars, unregVars,
                   genVars, timeVars>>

\* stream.shutdown().await.expect(..); continue
\* fails: the transport returns an error, and expect panics. Otherwise the
\* iteration ends and drops the stream and its header.
Shutdown ==
    /\ acceptPc = "shutdown"
    /\ \E fails \in BOOLEAN :
         IF fails
         THEN /\ acceptPc' = "panicked"
              /\ broken' = [broken EXCEPT ![accCur] = TRUE]
              /\ UNCHANGED <<accCur, accPub, accDeq, nConn, connHeader>>
         ELSE /\ connHeader' = [connHeader EXCEPT ![accCur] = NoHeader]
              /\ nConn' = nConn - 1
              /\ acceptPc' = "accept"
              /\ accCur' = 0
              /\ accPub' = 0
              /\ accDeq' = -1
              /\ broken' = broken
    /\ UNCHANGED <<pubVars, queue, fanVars, streams, lastMessage,
                   wire, pushedDeq, cfgVars, unregVars,
                   genVars, timeVars>>

\* stream.write_all(&response_header_bytes).await.expect(..)
ReplySkipsHeader ==
    /\ acceptPc = "reply"
    /\ \E fails \in BOOLEAN :
         IF fails
         THEN /\ acceptPc' = "panicked"
              /\ broken' = [broken EXCEPT ![accCur] = TRUE]
              /\ wire' = wire
         ELSE /\ wire' = wire
              /\ acceptPc' = "latch"
              /\ broken' = broken
    /\ UNCHANGED <<pubVars, queue, fanVars, streams, lastMessage, accCur, nConn,
                   connHeader, accPub, accDeq, pushedDeq, cfgVars, unregVars,
                   genVars, timeVars>>

Reply ==
    /\ acceptPc = "reply"
    /\ \E fails \in BOOLEAN :
         IF fails
         THEN /\ acceptPc' = "panicked"
              /\ broken' = [broken EXCEPT ![accCur] = TRUE]
              /\ wire' = wire
         ELSE /\ wire' = [wire EXCEPT ![accCur] = Append(@, HDR)]
              /\ acceptPc' = "latch"
              /\ broken' = broken
    /\ UNCHANGED <<pubVars, queue, fanVars, streams, lastMessage, accCur, nConn,
                   connHeader, accPub, accDeq, pushedDeq, cfgVars, unregVars,
                   genVars, timeVars>>

\* The same write, with the history of what the fan-out task had dequeued
\* when the header went out.
ReplyRecorded ==
    /\ acceptPc = "reply"
    /\ \E fails \in BOOLEAN :
         IF fails
         THEN /\ acceptPc' = "panicked"
              /\ broken' = [broken EXCEPT ![accCur] = TRUE]
              /\ wire' = wire
              /\ accDeq' = accDeq
         ELSE /\ wire' = [wire EXCEPT ![accCur] = Append(@, HDR)]
              /\ acceptPc' = "latch"
              /\ broken' = broken
              /\ accDeq' = fanCur
    /\ UNCHANGED <<pubVars, queue, fanVars, streams, lastMessage, accCur, nConn,
                   connHeader, accPub, pushedDeq, cfgVars, unregVars,
                   genVars, timeVars>>

\* if latching { if let Some(last_message) = last_message.read().await.as_ref()
\* The read guard lives until the end of the if let.
LatchRead ==
    /\ acceptPc = "latch"
    /\ acceptPc' = IF latching /\ lastMessage # NoMsg THEN "latch_write" ELSE "push"
    /\ UNCHANGED <<pubVars, queue, fanVars, streams, lastMessage, accCur,
                   connVars, sockVars, cfgVars, unregVars,
                   genVars, timeVars>>

\* stream.write_all(last_message).await: an error is logged and the stream is
\* still pushed.
LatchWriteFirst ==
    /\ acceptPc = "latch_write"
    /\ \E fails \in BOOLEAN :
         IF fails
         THEN /\ broken' = [broken EXCEPT ![accCur] = TRUE]
              /\ wire' = wire
         ELSE /\ wire' = [wire EXCEPT ![accCur] = <<lastMessage>> \o @]
              /\ broken' = broken
    /\ acceptPc' = "push"
    /\ UNCHANGED <<pubVars, queue, fanVars, streams, lastMessage, accCur, nConn,
                   connHeader, accPub, accDeq, pushedDeq, cfgVars, unregVars,
                   genVars, timeVars>>

LatchWrite ==
    /\ acceptPc = "latch_write"
    /\ \E fails \in BOOLEAN :
         IF fails
         THEN /\ broken' = [broken EXCEPT ![accCur] = TRUE]
              /\ wire' = wire
         ELSE /\ wire' = [wire EXCEPT ![accCur] = Append(@, lastMessage)]
              /\ broken' = broken
    /\ acceptPc' = "push"
    /\ UNCHANGED <<pubVars, queue, fanVars, streams, lastMessage, accCur, nConn,
                   connHeader, accPub, accDeq, pushedDeq, cfgVars, unregVars,
                   genVars, timeVars>>

\* subscriber_streams.write().await; wlock.push(stream): waits while the
\* fan-out task holds the streams' lock.
Push ==
    /\ acceptPc = "push"
    /\ ~StreamsWriteGuard
    /\ streams' = Append(streams, accCur)
    /\ pushedDeq' = [pushedDeq EXCEPT ![accCur] = fanCur]
    /\ acceptPc' = "accept"
    /\ accCur' = 0
    /\ accPub' = 0
    /\ accDeq' = -1
    /\ UNCHANGED <<pubVars, queue, fanVars, lastMessage, nConn, connHeader, broken,
                   wire, cfgVars, unregVars,
                   genVars, timeVars>>

\* ------------------------------------------------------------ specification
Next ==
    \/ GetSender
    \/ DropSender
    \/ PublishSend
    \/ PublishEnqueue
    \/ FanOutRecv
    \/ FanOutWrite
    \/ FanOutStore
    \/ FanOutClosed
    \/ UnregisterPublisher
    \/ UnregisterReturn
    \/ Accept
    \/ Shutdown
    \/ Reply
    \/ LatchRead
    \/ LatchWrite
    \/ Push

Spec == Init /\ [][Next]_vars

\* The publication with the history of the accepts and of the header writes
\* recorded.
NextRecorded ==
    \/ GetSender
    \/ DropSender
    \/ PublishSend
    \/ PublishEnqueue
    \/ FanOutRecv
    \/ FanOutWrite
    \/ FanOutStore
    \/ FanOutClosed
    \/ UnregisterPublisher
    \/ UnregisterReturn
    \/ AcceptRecorded
    \/ Shutdown
    \/ ReplyRecorded
    \/ LatchRead
    \/ LatchWrite
    \/ Push

SpecRecorded == Init /\ [][NextRecorded]_vars

\* The life of a publication to which no subscriber connects, up to its
\* teardown. The runtime runs a spawned task until it ends, and the node
\* answers the call: the two steps of the unregister call are taken once
\* they can be.
NextTeardown ==
    \/ GetSender
    \/ DropSender
    \/ PublishSend
    \/ PublishEnqueue
    \/ FanOutRecv
    \/ FanOutStore
    \/ FanOutClosed
    \/ UnregisterPublisher
    \/ UnregisterReturn

SpecTeardown ==
    /\ Init
    /\ [][NextTeardown]_vars
    /\ WF_vars(UnregisterPublisher)
    /\ WF_vars(UnregisterReturn)

\* The publication with values whose serialization can fail, while its
\* Publisher is kept alive.
NextSer ==
    \/ PublishSend
    \/ PublishSerializeFail
    \/ PublishEnqueue
    \/ FanOutRecv
    \/ FanOutWrite
    \/ FanOutStore
    \/ Accept
    \/ Shutdown
    \/ Reply
    \/ LatchRead
    \/ LatchWrite
    \/ Push

SpecSer == Init /\ [][NextSer]_vars

\* The two tasks of a publication whose Publisher is kept alive, scheduled
\* fairly: the runtime polls the fan-out task when it can run, a socket write
\* completes (with or without an error), and tokio's RwLock, which is fair,
\* hands the streams' lock to the acceptor that waits for it. Which peers
\* the md5 check refuses plays no part: the publication's md5sum is "m1".
NextLocks ==
    \/ PublishSend
    \/ PublishEnqueue
    \/ FanOutRecv
    \/ FanOutWrite
    \/ FanOutStore
    \/ Accept
    \/ Reply
    \/ LatchRead
    \/ LatchWrite
    \/ Push

InitLocks == Init /\ localMd5 = "m1"

SpecLocks ==
    /\ InitLocks
    /\ [][NextLocks]_vars
    /\ WF_vars(FanOutRecv \/ FanOutWrite \/ FanOutStore)
    /\ WF_vars(LatchWrite)
    /\ SF_vars(Push)

\* ====================================================== roslibrust_codegen
\* The resolver of the message-definition compiler (roslibrust_codegen/lib.rs):
\* resolve_dependency_graph and what MessageFile::resolve and
\* ServiceFile::resolve compute for each message and service.

\* --------------------------------------------------------- bounds (codegen)
\* Length of the longest dependency chain among the input messages.
MaxDepth == 4
\* Fields of a message of the families that vary the kinds of fields.
MaxFields == 2
\* The retry limit of the resolver. It is 2048 in the source (lib.rs:582); the
\* model scales it down so that chains deeper than the limit fit the bounds.
MAX_PARSE_ITER_LIMIT == 1

\* ------------------------------------------------------------------ Option
None == [none |-> TRUE]
Some(x) == [some |-> x]
IsSome(o) == DOMAIN o = {"some"}
\* The recursion ran into a reference cycle of the graph: it does not return
\* (the stack overflows).
Overflow == [overflow |-> TRUE]

\* -------------------------------------------------------------------- text
\* A String is a sequence of tokens: pieces of text without white space at
\* their ends, and newlines.
NL == [nl |-> TRUE]
Text(s) == [text |-> s]

\* str::trim_end, str::trim_start, str::trim: all white space at the end(s).
RECURSIVE TrimEnd(_)
TrimEnd(s) ==
    IF s # <<>> /\ s[Len(s)] = NL THEN TrimEnd(SubSeq(s, 1, Len(s) - 1)) ELSE s

RECURSIVE TrimStart(_)
TrimStart(s) == IF s # <<>> /\ Head(s) = NL THEN TrimStart(Tail(s)) ELSE s

Trim(s) == TrimStart(TrimEnd(s))

\* String::pop: the last character is removed (here always a newline).
Pop(s) == IF s = <<>> THEN s ELSE SubSeq(s, 1, Len(s) - 1)

\* md5::compute followed by format!("{md5sum:x}"): the digest of a text.
Md5(content) == [md5 |-> content]

\* The separator line of compute_full_definition, without its newline.
Sep == Text("================================================================================")

\* ------------------------------------------------------------------- names
Pkg == "p"
TypeNames == <<"A", "B", "C", "D", "E", "F">>
FieldNames == <<"f1", "f2", "f3", "f4">>
\* is_intrinsic_type / ROS_TYPE_TO_RUST_TYPE_MAP.contains_key
Primitives == {"int32", "string"}

\* format!("{}/{}", package, name)
FullNameOf(package, name) == package \o "/" \o name

\* ParsedMessageFile::get_full_name, MessageFile::get_full_name
ParsedFullName(parsed) == FullNameOf(parsed.package, parsed.name)

\* FieldInfo::get_full_name
FieldFullName(field) ==
    FullNameOf(IF IsSome(field.field_type.package_name)
               THEN field.field_type.package_name.some
               ELSE field.field_type.source_package,
               field.field_type.field_type)

\* The order of String keys in a BTreeMap or BTreeSet.
KeyRank(key) == CHOOSE i \in 1..Len(TypeNames) : FullNameOf(Pkg, TypeNames[i]) = key
KeyLess(a, b) == KeyRank(a) < KeyRank(b)

\* impl Display for FieldType
DisplayFieldType(t) ==
    IF IsSome(t.array_info)
    THEN IF IsSome(t.array_info.some)
         THEN t.field_type \o "[" \o ToString(t.array_info.some.some) \o "]"
         ELSE t.field_type \o "[]"
    ELSE t.field_type

\* ---------------------------------------------------------------- BTreeMap
\* A BTreeMap<String, MessageFile> is the sequence of its entries in key order.
MapHas(graph, key) == \E i \in 1..Len(graph) : graph[i].key = key

\* BTreeMap::get
MapGet(graph, key) ==
    IF MapHas(graph, key)
    THEN Some(graph[CHOOSE i \in 1..Len(graph) : graph[i].key = key].value)
    ELSE None

\* BTreeMap::insert: the value of a key already present is replaced.
MapInsertPush(graph, key, value) == Append(graph, [key |-> key, value |-> value])

MapInsert(graph, key, value) ==
    LET before == SelectSeq(graph, LAMBDA e : KeyLess(e.key, key))
        after == SelectSeq(graph, LAMBDA e : KeyLess(key, e.key))
    IN  before \o <<[key |-> key, value |-> value]>> \o after

\* BTreeMap::into_values
MapValues(graph) == [i \in 1..Len(graph) |-> graph[i].value]

\* The keys of a BTreeSet, in order.
RECURSIVE SetToSortedSeq(_)
SetToSortedSeq(set) ==
    IF set = {} THEN <<>>
    ELSE LET least == CHOOSE k \in set : \A o \in set : o = k \/ KeyLess(k, o)
         IN  <<least>> \o SetToSortedSeq(set \ {least})

\* ------------------------------------------------------------- MessageFile
\* The `?` on an Option: go on with the value of a Some, pass on anything
\* else.
Bind(o, F(_)) == IF IsSome(o) THEN F(o.some) ELSE o

\* The recursions below follow references through the graph; fuel is the
\* depth left before the recursion is known to be on a cycle.
Fuel(graph) == Len(graph) + 1

\* The constants loop of _compute_md5sum.
RECURSIVE Md5Constants(_, _)
Md5Constants(constants, i) ==
    IF i > Len(constants) THEN <<>>
    ELSE <<Text(constants[i].constant_type \o " " \o constants[i].constant_name
                  \o "=" \o constants[i].constant_value), NL>>
         \o Md5Constants(constants, i + 1)

\* MessageFile::compute_md5sum and MessageFile::_compute_md5sum: Md5Fields is
\* the fields loop from field i on, Md5FieldLine what one turn of it pushes.
RECURSIVE ComputeMd5sum(_, _, _)
RECURSIVE Md5Fields(_, _, _, _)
RECURSIVE Md5FieldLine(_, _, _)

Md5FieldLine(field, graph, fuel) ==
    IF field.field_type.field_type \in Primitives
    THEN Some(<<Text(DisplayFieldType(field.field_type) \o " " \o field.field_name), NL>>)
    ELSE Bind(MapGet(graph, FieldFullName(field)), LAMBDA sub_message :
         Bind(ComputeMd5sum(sub_message.parsed, graph, fuel - 1), LAMBDA sub_md5sum :
         Some(<<[sub_md5sum |-> sub_md5sum, field_name |-> field.field_name], NL>>)))

Md5Fields(parsed, graph, i, fuel) ==
    IF i > Len(parsed.fields) THEN Some(<<>>)
    ELSE Bind(Md5FieldLine(parsed.fields[i], graph, fuel), LAMBDA line :
         Bind(Md5Fields(parsed, graph, i + 1, fuel), LAMBDA rest :
         Some(line \o rest)))

ComputeMd5sumContent(parsed, graph, fuel) ==
    Bind(Md5Fields(parsed, graph, 1, fuel), LAMBDA fields :
    Some(Md5Constants(parsed.constants, 1) \o fields))

ComputeMd5sumUntrimmed(parsed, graph, fuel) ==
    IF fuel = 0 THEN Overflow
    ELSE Bind(ComputeMd5sumContent(parsed, graph, fuel), LAMBDA md5sum_content :
         Some(Md5(md5sum_content)))

ComputeMd5sum(parsed, graph, fuel) ==
    IF fuel = 0 THEN Overflow
    ELSE Bind(ComputeMd5sumContent(parsed, graph, fuel), LAMBDA md5sum_content :
         Some(Md5(TrimEnd(md5sum_content))))

\* MessageFile::get_unique_field_types (UniqueFields is its loop, from field
\* i on): a BTreeSet of full names.
RECURSIVE GetUniqueFieldTypes(_, _, _)
RECURSIVE UniqueFields(_, _, _, _)
UniqueFields(parsed, graph, i, fuel) ==
    IF i > Len(parsed.fields) THEN Some({})
    ELSE IF parsed.fields[i].field_type.field_type \in Primitives
    THEN UniqueFields(parsed, graph, i + 1, fuel)
    ELSE Bind(MapGet(graph, FieldFullName(parsed.fields[i])), LAMBDA sub_message :
         Bind(GetUniqueFieldTypes(sub_message.parsed, graph, fuel - 1), LAMBDA sub_deps :
         Bind(UniqueFields(parsed, graph, i + 1, fuel), LAMBDA rest :
         Some({FieldFullName(parsed.fields[i])} \cup sub_deps \cup rest))))

GetUniqueFieldTypes(parsed, graph, fuel) ==
    IF fuel = 0 THEN Overflow ELSE UniqueFields(parsed, graph, 1, fuel)

\* The loop of compute_full_definition over the sorted names.
RECURSIVE DefinitionSubMessages(_, _)
DefinitionSubMessages(names, graph) ==
    IF names = <<>> THEN Some(<<>>)
    ELSE Bind(MapGet(graph, Head(names)), LAMBDA sub_message :
         Bind(DefinitionSubMessages(Tail(names), graph), LAMBDA rest :
         Some(<<Sep, NL, Text("MSG: " \o ParsedFullName(sub_message.parsed)), NL>>
              \o Trim(sub_message.definition) \o <<NL>> \o rest)))

\* MessageFile::compute_full_definition
ComputeFullDefinition(parsed, graph) ==
    Bind(GetUniqueFieldTypes(parsed, graph, Fuel(graph)), LAMBDA unique :
    Bind(DefinitionSubMessages(SetToSortedSeq(unique), graph), LAMBDA subs :
    Some(Pop(Trim(parsed.source) \o <<NL>> \o subs))))

\* MessageFile::determine_if_fixed_length (FixedFields is its loop, from
\* field i on).
RECURSIVE DetermineIfFixedLength(_, _, _)
RECURSIVE FixedFields(_, _, _, _)
FixedFields(parsed, graph, i, fuel) ==
    IF i > Len(parsed.fields) THEN Some(TRUE)
    ELSE IF /\ IsSome(parsed.fields[i].field_type.array_info)
            /\ IsSome(parsed.fields[i].field_type.array_info.some)
    THEN Some(TRUE)
    ELSE IF IsSome(parsed.fields[i].field_type.array_info) THEN Some(FALSE)
    ELSE IF ~IsSome(parsed.fields[i].field_type.package_name)
    THEN IF parsed.fields[i].field_type.field_type = "string" THEN Some(FALSE)
         ELSE FixedFields(parsed, graph, i + 1, fuel)
    ELSE Bind(MapGet(graph, FieldFullName(parsed.fields[i])), LAMBDA field_msg :
         Bind(DetermineIfFixedLength(field_msg.parsed, graph, fuel - 1),
              LAMBDA field_is_fixed_length :
         IF ~field_is_fixed_length THEN Some(FALSE)
         ELSE FixedFields(parsed, graph, i + 1, fuel)))

DetermineIfFixedLength(parsed, graph, fuel) ==
    IF fuel = 0 THEN Overflow ELSE FixedFields(parsed, graph, 1, fuel)

\* MessageFile::resolve
MessageFileResolve(parsed, graph) ==
    Bind(ComputeMd5sum(parsed, graph, Fuel(graph)), LAMBDA md5sum :
    Bind(ComputeFullDefinition(parsed, graph), LAMBDA definition :
    Bind(DetermineIfFixedLength(parsed, graph, Fuel(graph)), LAMBDA is_fixed_length :
    Some([parsed |-> parsed,
          md5sum |-> md5sum,
          definition |-> definition,
          is_fixed_length |-> is_fixed_length]))))

\* ------------------------------------------------------------- ServiceFile
\* ServiceFile::compute_md5sum
ServiceComputeMd5sumJoined(parsed, graph) ==
    Bind(ComputeMd5sumContent(parsed.request_type, graph, Fuel(graph)),
         LAMBDA request_content :
    Bind(ComputeMd5sumContent(parsed.response_type, graph, Fuel(graph)),
         LAMBDA response_content :
    Some(Md5(TrimEnd(request_content \o response_content)))))

ServiceComputeMd5sum(parsed, graph) ==
    Bind(ComputeMd5sumContent(parsed.request_type, graph, Fuel(graph)),
         LAMBDA request_content :
    Bind(ComputeMd5sumContent(parsed.response_type, graph, Fuel(graph)),
         LAMBDA response_content :
    Some(Md5(TrimEnd(request_content) \o TrimEnd(response_content)))))

\* if let (Some(request), Some(response)) = (.., ..) { .. } else { None }
BothSome(request, response, F(_, _)) ==
    IF request = Overflow \/ response = Overflow THEN Overflow
    ELSE IF IsSome(request) /\ IsSome(response) THEN F(request.some, response.some)
    ELSE None

\* ServiceFile::resolve
ServiceFileResolve(parsed, graph) ==
    BothSome(MessageFileResolve(parsed.request_type, graph),
             MessageFileResolve(parsed.response_type, graph),
             LAMBDA request, response :
    Bind(ServiceComputeMd5sum(parsed, graph), LAMBDA md5sum :
    Some([parsed |-> parsed,
          request |-> request,
          response |-> response,
          md5sum |-> md5sum])))

\* services.into_iter().map(ServiceFile::resolve).collect::<Result<Vec<_>, _>>()
RECURSIVE ResolveAllServices(_, _)
ResolveAllServices(srvs, graph) ==
    IF srvs = <<>> THEN Some(<<>>)
    ELSE Bind(ServiceFileResolve(Head(srvs), graph), LAMBDA first :
         Bind(ResolveAllServices(Tail(srvs), graph), LAMBDA rest :
         Some(<<first>> \o rest)))

\* resolved_services.sort_by(|a, b| a.parsed.name.cmp(&b.parsed.name)): a
\* stable sort by the short name (an insertion sort here).
NameLess(a, b) ==
    (CHOOSE i \in 1..Len(TypeNames) : TypeNames[i] = a)
        < (CHOOSE i \in 1..Len(TypeNames) : TypeNames[i] = b)

RECURSIVE SortByName(_)
SortByName(srvs) ==
    IF srvs = <<>> THEN <<>>
    ELSE LET sorted == SortByName(SubSeq(srvs, 1, Len(srvs) - 1))
             last == srvs[Len(srvs)]
         IN  SelectSeq(sorted, LAMBDA s : ~NameLess(last.parsed.name, s.parsed.name))
             \o <<last>>
             \o SelectSeq(sorted, LAMBDA s : NameLess(last.parsed.name, s.parsed.name))

\* -------------------------------------------------- resolve_dependency_graph
\* msg.fields.iter().all(..): every field is a primitive or names a message
\* already resolved.
FullyResolvedUnchecked(msg, resolved) == TRUE

FullyResolved(msg, resolved) ==
    \A i \in 1..Len(msg.fields) :
      \/ msg.fields[i].field_type.field_type \in Primitives
      \/ MapHas(resolved, FieldFullName(msg.fields[i]))

\* The names of the error: format!("{}/{}", item.msg.package, item.msg.name)
UnresolvedNames(unresolved) ==
    [i \in 1..Len(unresolved) |-> FullNameOf(unresolved[i].msg.package, unresolved[i].msg.name)]

\* The end of a turn of the while loop: the call fails when the counter the
\* item was popped with is over the limit.
CheckLimitAtLimit(seen_count, unresolved) ==
    IF seen_count >= MAX_PARSE_ITER_LIMIT
    THEN /\ genPc' = "err_unresolved"
         /\ msg_names' = UnresolvedNames(unresolved)
    ELSE /\ genPc' = "messages"
         /\ msg_names' = msg_names

CheckLimit(seen_count, unresolved) ==
    IF seen_count > MAX_PARSE_ITER_LIMIT
    THEN /\ genPc' = "err_unresolved"
         /\ msg_names' = UnresolvedNames(unresolved)
    ELSE /\ genPc' = "messages"
         /\ msg_names' = msg_names

\* if fully_resolved { MessageFile::resolve(..).ok_or(..)?; insert }
Resolved(item, rest, msg_file) ==
    IF msg_file = Overflow
    THEN /\ genPc' = "overflow"
         /\ UNCHANGED <<unresolved_messages, resolved_messages, msg_names>>
    ELSE IF ~IsSome(msg_file)
    THEN /\ genPc' = "err_message"
         /\ UNCHANGED <<unresolved_messages, resolved_messages, msg_names>>
    ELSE /\ resolved_messages' =
              MapInsert(resolved_messages, ParsedFullName(msg_file.some.parsed),
                        msg_file.some)
         /\ unresolved_messages' = rest
         /\ CheckLimit(item.seen_count, rest)

\* else { unresolved_messages.push_back(..seen_count + 1..) }
Deferred(item, rest) ==
    /\ unresolved_messages' =
         Append(rest, [msg |-> item.msg, seen_count |-> item.seen_count + 1])
    /\ resolved_messages' = resolved_messages
    /\ CheckLimit(item.seen_count, unresolved_messages')

\* One turn of the while loop: the front of the worklist is resolved and
\* inserted, or put back with its counter raised; then the limit is checked.
ResolveMessage ==
    /\ genPc = "messages"
    /\ unresolved_messages # <<>>
    /\ IF FullyResolved(Head(unresolved_messages).msg, resolved_messages)
       THEN Resolved(Head(unresolved_messages), Tail(unresolved_messages),
                     MessageFileResolve(Head(unresolved_messages).msg, resolved_messages))
       ELSE Deferred(Head(unresolved_messages), Tail(unresolved_messages))
    /\ iterations' = iterations + 1
    /\ UNCHANGED <<messages, services, resolved_services, runtimeVars, timeVars>>

\* Ok((resolved_messages.into_values().collect(), resolved_services))
ReturnServices(srvs) ==
    IF srvs = Overflow
    THEN /\ genPc' = "overflow"
         /\ resolved_services' = resolved_services
    ELSE IF ~IsSome(srvs)
    THEN /\ genPc' = "err_service"
         /\ resolved_services' = resolved_services
    ELSE /\ genPc' = "ok"
         /\ resolved_services' = SortByName(srvs.some)

\* The worklist is empty: the services are resolved against the resolved
\* messages and sorted, and the call returns.
ResolveServices ==
    /\ genPc = "messages"
    /\ unresolved_messages = <<>>
    /\ ReturnServices(ResolveAllServices(services, resolved_messages))
    /\ UNCHANGED <<messages, services, unresolved_messages, resolved_messages,
                   msg_names, iterations, runtimeVars, timeVars>>

\* ------------------------------------------------------------- the inputs
\* What the parser hands over. A non-primitive field carries its package
\* (_compute_md5sum expects it), a primitive one does not.
Field(field_type, array_info, field_name) ==
    [field_type |-> [package_name |-> IF field_type \in Primitives THEN None
                                      ELSE Some(Pkg),
                     source_package |-> Pkg,
                     field_type |-> field_type,
                     array_info |-> array_info],
     field_name |-> field_name]

Parsed(name, fields, constants, source) ==
    [package |-> Pkg, name |-> name, fields |-> fields, constants |-> constants,
     source |-> source]

Scalar == None
VarArray == Some(None)
FixedArray == Some(Some(MaxFields))

\* A chain of n messages, each holding a field of the next and the last one
\* an int32; extra (if any) is one more reference <<a, b>>, put in front of
\* the fields of the a-th message and naming the b-th.
ChainMsg(i, n, extra) ==
    Parsed(TypeNames[i],
           (IF IsSome(extra) /\ extra.some[1] = i
            THEN <<Field(TypeNames[extra.some[2]], Scalar, "x")>> ELSE <<>>)
           \o (IF i < n THEN <<Field(TypeNames[i + 1], Scalar, "f1")>>
               ELSE <<Field("int32", Scalar, "f1")>>),
           <<>>,
           <<NL, Text("# " \o TypeNames[i]), NL, Text("body"), NL, NL>>)

\* A second file for the i-th message's full name, with other contents.
DupMsg(i) ==
    Parsed(TypeNames[i], <<Field("string", Scalar, "d")>>, <<>>,
           <<Text("# another " \o TypeNames[i]), NL>>)

Orders(n, k) == {s \in [1..k -> 1..n] : \A i, j \in 1..k : s[i] = s[j] => i = j}

\* The messages of a chain of n in the order s, with or without the extra
\* reference, and with or without a second file for the last name in front.
ChainInput(n, s, extra, dup) ==
    (IF dup THEN <<DupMsg(n)>> ELSE <<>>)
        \o [j \in 1..Len(s) |-> ChainMsg(s[j], n, extra)]

Extras(n) == {None} \cup {Some(<<a, b>>) : a, b \in 1..n}

\* Two messages, A and B: A with every choice of up to MaxFields fields of
\* several kinds (it may hold B) and of constants, B with one field.
LeafKinds == {<<"int32", Scalar>>, <<"string", Scalar>>, <<"int32", VarArray>>}
ParentKinds ==
    {<<"int32", Scalar>>, <<"string", Scalar>>, <<"int32", FixedArray>>,
     <<"string", FixedArray>>, <<"int32", VarArray>>,
     <<"B", Scalar>>, <<"B", FixedArray>>, <<"B", VarArray>>}
ConstantLists ==
    {<<>>,
     <<[constant_type |-> "int32", constant_name |-> "K", constant_value |-> "7"]>>,
     <<[constant_type |-> "int32", constant_name |-> "K", constant_value |-> "7"],
       [constant_type |-> "string", constant_name |-> "S", constant_value |-> ""]>>}

FieldLists(kinds) ==
    UNION {{[i \in 1..k |-> Field(ks[i][1], ks[i][2], FieldNames[i])] :
              ks \in [1..k -> kinds]} : k \in 0..MaxFields}

FieldInputs ==
    {<<Parsed("A", fa, cs, <<Text("# A"), NL>>),
       Parsed("B", <<Field(kb[1], kb[2], "f1")>>, <<>>, <<Text("# B"), NL>>)>> :
       fa \in FieldLists(ParentKinds), kb \in LeafKinds, cs \in ConstantLists}

\* A service whose request and response hold up to MaxFields fields, after a
\* plainer one; B is the one message.
ServiceKinds == {<<"int32", Scalar>>, <<"string", VarArray>>, <<"B", Scalar>>}
ServiceMessages == <<Parsed("B", <<Field("int32", Scalar, "f1")>>, <<>>, <<Text("# B"), NL>>)>>
ParsedService(name, request_type, response_type) ==
    [package |-> Pkg, name |-> name, request_type |-> request_type,
     response_type |-> response_type]
ServiceInputs ==
    {<<ParsedService("B", Parsed("BRequest", <<>>, <<>>, <<>>),
                    Parsed("BResponse", <<Field("int32", Scalar, "f1")>>, <<>>, <<>>)),
       ParsedService("A", Parsed("ARequest", fq, cs, <<>>), Parsed("AResponse", fp, <<>>, <<>>))>> :
       fq \in FieldLists(ServiceKinds), fp \in FieldLists(ServiceKinds),
       cs \in {c \in ConstantLists : Len(c) < 2}}

\* Publication::new has run and nothing has happened to the publication.
RuntimeIdle ==
    /\ latching = FALSE
    /\ localMd5 = "m1"
    /\ senders = 1
    /\ pubPc = "idle"
    /\ pubResult = "none"
    /\ nextMsg = 0
    /\ queue = <<>>
    /\ fanPc = "recv"
    /\ fanCur = NoMsg
    /\ fanIdx = 0
    /\ toRemove = <<>>
    /\ streams = <<>>
    /\ lastMessage = NoMsg
    /\ acceptPc = "accept"
    /\ accCur = 0
    /\ nConn = 0
    /\ connHeader = [c \in Conns |-> NoHeader]
    /\ broken = [c \in Conns |-> FALSE]
    /\ wire = [c \in Conns |-> <<>>]
    /\ accPub = 0
    /\ accDeq = -1
    /\ pushedDeq = [c \in Conns |-> -1]
    /\ unregSpawned = 0
    /\ unregDone = 0
    /\ dropped = FALSE

\* resolve_dependency_graph is called: every message goes to the worklist
\* with seen_count 0 and nothing is resolved. The messages are those of a
\* chain, all of them or all but one and in any order, or A and B, or the
\* one message the services use.
InitGen ==
    /\ RuntimeIdle
    /\ \/ /\ \E n \in 1..MaxDepth : \E k \in {n - 1, n} : \E s \in Orders(n, k) :
               \E extra \in Extras(n) : \E dup \in BOOLEAN :
                 messages = ChainInput(n, s, extra, dup)
          /\ services = <<>>
       \/ messages \in FieldInputs /\ services = <<>>
       \/ messages = ServiceMessages /\ services \in ServiceInputs
    /\ unresolved_messages =
         [i \in 1..Len(messages) |-> [msg |-> messages[i], seen_count |-> 0]]
    /\ resolved_messages = <<>>
    /\ resolved_services = <<>>
    /\ genPc = "messages"
    /\ msg_names = <<>>
    /\ iterations = 0
    /\ TimeIdle

NextGen ==
    \/ ResolveMessage
    \/ ResolveServices

SpecGen == InitGen /\ [][NextGen]_vars

\* ------------------------------------------------------ Time and Duration
\* The seconds of a Time are a u32 and those of a Duration an i32; the model
\* keeps the wrap of the casts at a width of SecsBits bits. The nanoseconds
\* are drawn from the MaxNsec + 1 values at either end of 0..999_999_999.
SecsBits == 2
MaxNsec == 1
NANOS_PER_SEC == 1000000000

U32 == 0..(2 ^ SecsBits - 1)
I32 == (0 - 2 ^ (SecsBits - 1))..(2 ^ (SecsBits - 1) - 1)
Nsecs == (0..MaxNsec) \cup ((NANOS_PER_SEC - 1 - MaxNsec)..(NANOS_PER_SEC - 1))
Times == [secs : U32, nsecs : Nsecs]
Durations == [sec : I32, nsec : Nsecs \cup {0 - n : n \in Nsecs}]

\* secs as u32, secs as i32: the low bits of the i64.
AsU32(x) == x % (2 ^ SecsBits)
AsI32(x) ==
    IF x % (2 ^ SecsBits) >= 2 ^ (SecsBits - 1)
    THEN (x % (2 ^ SecsBits)) - 2 ^ SecsBits
    ELSE x % (2 ^ SecsBits)

\* The / of i64 rounds towards zero; rem_euclid is never negative.
DivI64(a, b) == IF a >= 0 THEN a \div b ELSE 0 - ((0 - a) \div b)
RemEuclid(a, b) == a % b

\* impl Add<Duration> for Time
TimeAdd(self, rhs) ==
    LET nsec_sum == self.nsecs + rhs.nsec
        secs == self.secs + rhs.sec + DivI64(nsec_sum, NANOS_PER_SEC)
        nsecs == RemEuclid(nsec_sum, NANOS_PER_SEC)
    IN  IF secs < 0
        THEN [secs |-> 0, nsecs |-> 0]
        ELSE [secs |-> AsU32(secs), nsecs |-> nsecs]

\* impl Sub<Time> for Time
TimeSub(self, rhs) ==
    LET nsec_diff == self.nsecs - rhs.nsecs
        secs == self.secs - rhs.secs + DivI64(nsec_diff, NANOS_PER_SEC)
        nsecs == RemEuclid(nsec_diff, NANOS_PER_SEC)
    IN  [sec |-> AsI32(secs), nsec |-> nsecs]

\* A Time is at hand and no operator has been applied to it.
InitTime ==
    /\ RuntimeIdle
    /\ GenIdle
    /\ time_op = "none"
    /\ time_self \in Times
    /\ time_rhs = NoOperand
    /\ time_out = NoOperand

\* self + rhs
Add ==
    /\ time_op = "none"
    /\ \E rhs \in Durations :
         /\ time_rhs' = rhs
         /\ time_out' = TimeAdd(time_self, rhs)
    /\ time_op' = "add"
    /\ UNCHANGED <<time_self, runtimeVars, genVars>>

\* self - rhs
Sub ==
    /\ time_op = "none"
    /\ \E rhs \in Times :
         /\ time_rhs' = rhs
         /\ time_out' = TimeSub(time_self, rhs)
    /\ time_op' = "sub"
    /\ UNCHANGED <<time_self, runtimeVars, genVars>>

NextTime ==
    \/ Add
    \/ Sub

SpecTime == InitTime /\ [][NextTime]_vars

\* ------------------------------------------------------ reading the state
\* The message payloads written to a socket, in order.
Payload(w) == SelectSeq(w, LAMBDA x : x # HDR)

InSet(c) == \E i \in 1..Len(streams) : streams[i] = c
Pos(c) == CHOOSE i \in 1..Len(streams) : streams[i] = c
Upto(n) == [i \in 1..n |-> i]

\* How many messages the fan-out task has put to socket c of the set: all it
\* has dequeued, less the current one while the loop has not reached c.
DoneAt(c) == IF fanPc = "write" /\ Pos(c) > fanIdx THEN fanCur - 1 ELSE fanCur

\* The header carries an md5sum that is neither "*" nor the publication's.
Mismatch(h) == h.readable /\ h.md5sum \notin {NoMd5, "*", localMd5}
Wild(h) == h.readable /\ h.md5sum = "*"

\* The acceptor has refused connection c / has let it past the md5 check.
Rejected(c) == c = accCur /\ acceptPc = "shutdown"
Passed(c) ==
    \/ wire[c] # <<>>
    \/ pushedDeq[c] >= 0
    \/ c = accCur /\ acceptPc \in {"reply", "latch", "latch_write", "push"}

C2_Claim ==
    (latching /\ accCur # 0 /\ accPub > 0 /\ Payload(wire[accCur]) # <<>>)
        => Payload(wire[accCur])[1] = accPub

\* C3: a newly accepted subscriber of a latching publication receives the
\* most recently published message: when its socket joins the fan-out set,
\* that message has been written to it or is still queued for the fan-out
\* (any other message written to it from then on is a later one).
C3_Claim ==
    [][(acceptPc = "push" /\ acceptPc' = "accept" /\ latching /\ accPub > 0
            /\ ~broken[accCur])
          => \/ \E i \in 1..Len(wire[accCur]) : wire[accCur][i] = accPub
             \/ \E i \in 1..Len(queue) : queue[i] = accPub]_vars

\* What holds of every connection whose md5sum is neither "*" nor the
\* publication's: nothing is written to it, it is not pushed, and the
\* acceptor shuts it down.
C4_State ==
    \A c \in 1..nConn :
      Mismatch(connHeader[c]) =>
        /\ wire[c] = <<>>
        /\ pushedDeq[c] = -1
        /\ ~InSet(c)
        /\ c = accCur
        /\ acceptPc \in {"shutdown", "panicked", "aborted"}

\* C4: a peer whose md5sum is neither "*" nor the publication's gets neither
\* the header nor a payload, is never pushed, and is shut down; the step that
\* ends the rejection leaves the fan-out set as it was.
C4_Reject ==
    [][/\ C4_State
       /\ C4_State'
       /\ (acceptPc = "shutdown" /\ acceptPc' # "shutdown")
            => (streams' = streams /\ wire' = wire)]_vars

\* C4 witness.
C4_Witness ==
    /\ acceptPc = "shutdown"
    /\ Mismatch(connHeader[accCur])
    /\ \E c \in Conns : InSet(c) /\ Len(wire[c]) > 1

\* C5: a peer whose md5sum is "*" is never refused, whatever the
\* publication's md5sum: the acceptor goes on to write the header to it (only
\* a failure of that write stops it) and, once it has moved on to the next
\* connection, the socket has the header and was pushed to the fan-out set.
C5_Wildcard ==
    \A c \in 1..nConn :
      Wild(connHeader[c]) =>
        /\ ~Rejected(c)
        /\ c = accCur =>
             /\ acceptPc = "panicked" => broken[c]
             /\ acceptPc \in {"latch", "latch_write", "push"} => wire[c][1] = HDR
        /\ c # accCur => (pushedDeq[c] >= 0 /\ wire[c] # <<>> /\ wire[c][1] = HDR)

\* C5 witness.
C5_Witness ==
    \E c \in 1..nConn :
      /\ Wild(connHeader[c])
      /\ localMd5 = "m1"
      /\ InSet(c)
      /\ wire[c][1] = HDR

\* C6: when the acceptor closes the socket of a connection it rejects,
\* something (the header with the error field) has been written to it.
C6_Claim ==
    [][(acceptPc = "shutdown" /\ acceptPc' = "accept") => wire[accCur] # <<>>]_vars

\* C7 as stated: a publication whose md5sum is "*" refuses no subscriber
\* whose header could be read.
C7_Claim ==
    localMd5 = "*" =>
      \A c \in 1..nConn : connHeader[c].readable => ~Rejected(c)

\* C7 amended: the wildcard counts on the subscriber's side only. A peer
\* sending "*" is never refused, and a publication whose md5sum is "*" lets
\* no peer past the check that sends an md5sum other than "*".
C7_OneWay ==
    \A c \in 1..nConn :
      LET h == connHeader[c] IN
        h.readable =>
          /\ h.md5sum = "*" => ~Rejected(c)
          /\ (localMd5 = "*" /\ h.md5sum \notin {"*", NoMd5}) => ~Passed(c)

\* C7 witness.
C7_Witness ==
    /\ localMd5 = "*"
    /\ acceptPc = "shutdown"
    /\ connHeader[accCur].readable
    /\ connHeader[accCur].md5sum = "m1"

\* The queue holds at most queue_size messages, and exactly the enqueued
\* messages not yet dequeued, in order.
C8_QueueIntact ==
    /\ Len(queue) <= QueueSize
    /\ queue = [i \in 1..(nextMsg - fanCur) |-> fanCur + i]

\* C8: no queued message is dropped or overwritten (the queue stays intact);
\* with the queue full a publish call stays pending until the fan-out task
\* dequeues; a call completes in the very step that enqueues its message,
\* which needs room in the queue and writes to no socket.
C8_Backpressure ==
    [][/\ C8_QueueIntact
       /\ C8_QueueIntact'
       /\ (pubPc = "sending" /\ Len(queue) = QueueSize /\ queue' = queue)
            => (pubPc' = "sending" /\ nextMsg' = nextMsg)
       /\ nextMsg' # nextMsg =>
            /\ pubPc = "sending" /\ pubPc' = "idle" /\ pubResult' = "Ok"
            /\ Len(queue) < QueueSize
            /\ queue' = Append(queue, nextMsg')
            /\ wire' = wire /\ lastMessage' = lastMessage /\ fanCur' = fanCur
       /\ (pubPc = "sending" /\ pubPc' = "idle") => nextMsg' = nextMsg + 1]_vars

\* C8 witness.
C8_Witness ==
    /\ pubPc = "sending"
    /\ Len(queue) = QueueSize
    /\ pubResult = "Ok"
    /\ \E c \in Conns : InSet(c) /\ ~broken[c] /\ Payload(wire[c]) = <<>>

\* C9: no transport failure on a subscriber's socket brings the acceptor
\* down or makes a publish call return an error.
C9_Claim ==
    /\ acceptPc # "panicked"
    /\ pubResult \in {"none", "Ok"}

\* C10: the unregister is dispatched at most once, exactly when the fan-out
\* task exits, and then no sender is alive, the queue is empty and every
\* enqueued message has been dequeued, stored as last_message and put to
\* every socket of the set that joined before it and has not failed.
C10_Unregister ==
    /\ unregSpawned <= 1
    /\ unregSpawned = 1 <=> fanPc = "exited"
    /\ unregSpawned > 0 =>
         /\ senders = 0
         /\ queue = <<>>
         /\ fanCur = nextMsg
         /\ lastMessage = nextMsg
         /\ \A c \in Conns :
              (InSet(c) /\ ~broken[c] /\ pushedDeq[c] < nextMsg) =>
                 LET p == Payload(wire[c]) IN p # <<>> /\ p[Len(p)] = nextMsg

\* C10 witness.
C10_Witness ==
    /\ fanPc = "exited"
    /\ unregSpawned = 1
    /\ nextMsg = MaxMsgs
    /\ \E c \in Conns : InSet(c) /\ ~broken[c] /\ pushedDeq[c] < nextMsg

\* C11: a publish call whose serialization fails returns the
\* SerializingError and enqueues nothing: the step leaves the queue, the
\* count of enqueued messages, every socket and last_message as they were,
\* and so the queue still holds exactly the messages of successful calls and
\* no socket carries a payload that was not enqueued by one.
C11_SerializeError ==
    [][/\ (pubResult' = "SerializingError" /\ pubResult # "SerializingError")
            => /\ pubPc = "idle" /\ pubPc' = "idle"
               /\ queue' = queue
               /\ nextMsg' = nextMsg
               /\ wire' = wire
               /\ lastMessage' = lastMessage
               /\ fanCur' = fanCur
       /\ C8_QueueIntact'
       /\ nextMsg' # nextMsg => pubResult' = "Ok"
       /\ \A c \in Conns :
            \A i \in 1..Len(wire'[c]) : wire'[c][i] <= nextMsg']_vars

\* C11 witness: a call has failed after an earlier one had succeeded and
\* reached a subscriber, whose socket holds that one payload only.
C11_Witness ==
    /\ pubResult = "SerializingError"
    /\ nextMsg = 1
    /\ queue = <<>>
    /\ lastMessage = 1
    /\ \E c \in Conns : InSet(c) /\ Payload(wire[c]) = <<1>>

\* C20 as claimed: each socket in the fan-out set belongs to a peer whose
\* connection header was received, whose md5sum was "*" or the publication's,
\* and to which the publisher's header has been written.
C20_Claim ==
    \A i \in 1..Len(streams) :
      /\ connHeader[streams[i]].readable
      /\ connHeader[streams[i]].md5sum \in {"*", localMd5}
      /\ wire[streams[i]] # <<>>
      /\ wire[streams[i]][1] = HDR

\* C20: each socket in the fan-out set belongs to a peer whose connection
\* header was received, whose md5sum was absent, "*" or the publication's,
\* and to which the publisher's header was written first of all.
C20_Compatible ==
    \A i \in 1..Len(streams) :
      /\ connHeader[streams[i]].readable
      /\ connHeader[streams[i]].md5sum \in {NoMd5, "*", localMd5}
      /\ wire[streams[i]] # <<>>
      /\ wire[streams[i]][1] = HDR

\* C20 witness: the fan-out set holds the socket of a peer that sent no
\* md5sum, with the header and a payload written to it, and after it the
\* socket of a peer that sent the publication's md5sum.
C20_Witness ==
    /\ Len(streams) = 2
    /\ connHeader[streams[1]].md5sum = NoMd5
    /\ connHeader[streams[1]].readable
    /\ connHeader[streams[2]].md5sum = localMd5
    /\ streams[2] > streams[1]
    /\ wire[streams[1]][1] = HDR
    /\ Len(wire[streams[1]]) > 1

\* C21: on every socket the publisher's header comes before any payload:
\* whatever is on the wire of a socket starts with the header, and the header
\* is there once.
C21_HeaderFirst ==
    \A c \in Conns :
      wire[c] # <<>> =>
        /\ wire[c][1] = HDR
        /\ \A i \in 2..Len(wire[c]) : wire[c][i] # HDR

\* C21 witness: a socket of a latching publication carries the header, the
\* latched replay and then a fanned-out message.
C21_Witness ==
    \E c \in Conns :
      /\ latching
      /\ InSet(c)
      /\ pushedDeq[c] = 1
      /\ wire[c] = <<HDR, 1, 2>>

C23_LastMessage ==
    /\ lastMessage = IF fanPc \in {"write", "store"} THEN fanCur - 1 ELSE fanCur
    /\ fanCur = 0 => lastMessage = NoMsg

\* C23 witness: a publication that is not latching and never had a
\* subscriber holds the last message published.
C23_Witness ==
    /\ ~latching
    /\ nConn = 0
    /\ streams = <<>>
    /\ fanPc = "recv"
    /\ lastMessage = MaxMsgs

\* C24: once the unregister call is dispatched it completes, although the
\* Publication is dropped, and with it the publish task aborted, in between.
C24_Completes == (unregDone < unregSpawned) ~> (dropped /\ unregDone = unregSpawned)

\* C24 witness: the call has completed after the drop, every message
\* published before it having been processed.
C24_Witness ==
    /\ unregSpawned = 1
    /\ unregDone = 1
    /\ dropped
    /\ fanPc = "exited"
    /\ acceptPc = "aborted"
    /\ lastMessage = MaxMsgs

\* C26: every message the fan-out task has dequeued since the header was
\* written to a socket is on that socket when the acceptor adds it to the
\* fan-out set (the fan-out task writes none of them to it afterwards), unless
\* a write to the socket has failed.
C26_Claim ==
    [][(acceptPc = "push" /\ acceptPc' = "accept" /\ ~broken[accCur])
          => \A m \in (accDeq + 1)..fanCur :
               \E i \in 1..Len(wire[accCur]) : wire[accCur][i] = m]_vars

\* C27: the acceptor task and the fan-out task never deadlock on the two
\* locks. The fan-out task, which asks for the last message's lock while it
\* holds the streams' lock, never waits for ever: it leaves the store, and it
\* does so only with the lock. Nor does the acceptor, which asks for the
\* streams' lock after it has dropped its read guard: it leaves the push.
C27_Acquires ==
    /\ []<>(fanPc # "store")
    /\ []<>(acceptPc # "push")

\* The two tasks never wait for each other.
C27_NoCycle ==
    ~(/\ fanPc = "store" /\ ~ENABLED FanOutStore
      /\ acceptPc = "push" /\ ~ENABLED Push)

\* The fan-out task holds the streams' lock and waits for the last message's
\* lock, which the acceptor holds while it writes the latched message to a
\* new subscriber.
C27_Witness ==
    /\ latching
    /\ fanPc = "store"
    /\ ~ENABLED FanOutStore
    /\ acceptPc = "latch_write"
    /\ lastMessage = 1
    /\ fanCur = 2
    /\ streams # <<>>

\* --------------------------------------------------------- claims (codegen)
\* No field of the message, nor of any message it references through the
\* graph, is a variable-length array or a string.
RECURSIVE NoVariableLengthField(_, _, _)
NoVariableLengthField(parsed, graph, fuel) ==
    \A i \in 1..Len(parsed.fields) :
      LET t == parsed.fields[i].field_type IN
        /\ t.array_info # VarArray
        /\ t.field_type # "string"
        /\ (t.field_type \notin Primitives /\ fuel > 0
              /\ MapHas(graph, FieldFullName(parsed.fields[i])))
             => NoVariableLengthField(MapGet(graph, FieldFullName(parsed.fields[i])).some.parsed,
                                      graph, fuel - 1)

\* C12: for every resolved message, is_fixed_length is true if and only if
\* no field of the message or of a message it transitively references is a
\* variable-length array or a string.
C12_Claim ==
    \A i \in 1..Len(resolved_messages) :
      resolved_messages[i].value.is_fixed_length
        = NoVariableLengthField(resolved_messages[i].value.parsed, resolved_messages,
                                Fuel(resolved_messages))

\* No two messages of the input have the same full name.
DistinctNames ==
    \A i, j \in 1..Len(messages) :
      ParsedFullName(messages[i]) = ParsedFullName(messages[j]) => i = j

\* The message the step has just resolved and inserted.
JustResolved ==
    MapGet(resolved_messages', ParsedFullName(Head(unresolved_messages).msg)).some

\* The full names of the types a message references through the graph.
RECURSIVE References(_, _, _)
References(parsed, graph, fuel) ==
    UNION {IF parsed.fields[i].field_type.field_type \in Primitives THEN {}
           ELSE {FieldFullName(parsed.fields[i])}
                  \cup (IF fuel > 0 /\ MapHas(graph, FieldFullName(parsed.fields[i]))
                        THEN References(MapGet(graph, FieldFullName(parsed.fields[i])).some.parsed,
                                        graph, fuel - 1)
                        ELSE {}) :
           i \in 1..Len(parsed.fields)}

\* For each name: the separator line, the MSG line and the raw source of the
\* type, each block after a newline.
RECURSIVE RawSourceBlocks(_, _)
RawSourceBlocks(names, graph) ==
    IF names = <<>> THEN <<>>
    ELSE <<NL, Sep, NL, Text("MSG: " \o Head(names)), NL>>
         \o Trim(MapGet(graph, Head(names)).some.parsed.source)
         \o RawSourceBlocks(Tail(names), graph)

\* C13: the expanded definition of a message just resolved is its own
\* trimmed source followed, for each transitively referenced type once and in
\* the order of the full names, by the separator line, the MSG line and that
\* type's raw source, without a newline at the end (stated for the inputs
\* without a repeated name).
C13_Claim ==
    [][(DistinctNames /\ resolved_messages' # resolved_messages)
         => JustResolved.definition
              = Trim(JustResolved.parsed.source)
                  \o RawSourceBlocks(
                       SetToSortedSeq(References(JustResolved.parsed, resolved_messages,
                                                 Fuel(resolved_messages))),
                       resolved_messages)]_vars

\* The lines of a text with a newline between them and none at the end.
RECURSIVE JoinLines(_)
JoinLines(lines) ==
    IF lines = <<>> THEN <<>>
    ELSE IF Len(lines) = 1 THEN <<lines[1]>>
    ELSE <<Head(lines), NL>> \o JoinLines(Tail(lines))

\* The array suffix of a field's type.
ArraySuffix(array_info) ==
    IF array_info = Scalar THEN ""
    ELSE IF array_info = VarArray THEN "[]"
    ELSE "[" \o ToString(array_info.some.some) \o "]"

\* The digest a message has by the procedure of the claim: the constants'
\* lines, then the fields' lines in source order, joined.
RECURSIVE DigestOf(_, _, _)
DigestOf(parsed, graph, fuel) ==
    Md5(JoinLines(
        [i \in 1..Len(parsed.constants) |->
           Text(parsed.constants[i].constant_type \o " " \o parsed.constants[i].constant_name
                  \o "=" \o parsed.constants[i].constant_value)]
        \o [i \in 1..Len(parsed.fields) |->
              LET f == parsed.fields[i] IN
                IF f.field_type.field_type \in Primitives
                THEN Text(f.field_type.field_type \o ArraySuffix(f.field_type.array_info)
                            \o " " \o f.field_name)
                ELSE [sub_md5sum |->
                        IF fuel > 0 /\ MapHas(graph, FieldFullName(f))
                        THEN DigestOf(MapGet(graph, FieldFullName(f)).some.parsed, graph, fuel - 1)
                        ELSE None,
                      field_name |-> f.field_name]]))

InputNames == {ParsedFullName(messages[i]) : i \in 1..Len(messages)}
DependsOn(a) ==
    UNION {{FieldFullName(messages[i].fields[j]) :
              j \in {k \in 1..Len(messages[i].fields) :
                       messages[i].fields[k].field_type.field_type \notin Primitives}} :
           i \in {k \in 1..Len(messages) : ParsedFullName(messages[k]) = a}}

\* The names reached from a set of names in at most k more steps.
RECURSIVE Closure(_, _)
Closure(names, k) ==
    IF k = 0 THEN names
    ELSE Closure(names \cup UNION {DependsOn(a) : a \in names}, k - 1)

\* What a name depends on, directly or transitively.
Dependencies(a) == Closure(DependsOn(a), Len(messages))

\* No message of the input depends on itself.
Acyclic == \A a \in InputNames : a \notin Dependencies(a)
\* Every type the input refers to is in the input.
Complete == \A a \in InputNames : DependsOn(a) \subseteq InputNames

\* C15: when the call has returned, recomputing the md5sum of a resolved
\* message against the resolved set gives the stored value, so the digest the
\* recursion finds for a referenced message is the one stored for it (stated
\* for the inputs without a dependency cycle).
C15_Claim ==
    (genPc = "ok" /\ Acyclic) =>
      \A i \in 1..Len(resolved_messages) :
        ComputeMd5sum(resolved_messages[i].value.parsed, resolved_messages,
                      Fuel(resolved_messages))
          = Some(resolved_messages[i].value.md5sum)

\* The messages on the longest dependency chain that starts at a name (of an
\* acyclic input).
RECURSIVE ChainLength(_, _)
ChainLength(a, fuel) ==
    IF fuel = 0 \/ a \notin InputNames THEN 0
    ELSE LET below == {ChainLength(b, fuel - 1) : b \in DependsOn(a)} \cup {0}
         IN  1 + CHOOSE m \in below : \A o \in below : o <= m

Failed == genPc \in {"err_unresolved", "err_message", "err_service", "overflow"}
ResolvedNames == {resolved_messages[i].key : i \in 1..Len(resolved_messages)}

\* C17 as claimed: for every acyclic input in which every referenced type is
\* present, the call does not fail and, once it has returned, every message
\* is resolved.
C17_Claim ==
    (Acyclic /\ Complete) =>
      /\ ~Failed
      /\ genPc = "ok" => ResolvedNames = InputNames

\* C17: for every acyclic input in which every referenced type is present
\* and no dependency chain has more than MAX_PARSE_ITER_LIMIT + 1 messages,
\* whatever its order, the call does not fail, no message waits with a
\* counter over the limit, and once the call has returned every message is
\* resolved.
C17_WithinLimit ==
    (/\ Acyclic
     /\ Complete
     /\ \A a \in InputNames : ChainLength(a, Len(messages)) <= MAX_PARSE_ITER_LIMIT + 1) =>
      /\ ~Failed
      /\ \A i \in 1..Len(unresolved_messages) :
           unresolved_messages[i].seen_count <= MAX_PARSE_ITER_LIMIT
      /\ genPc = "ok" => ResolvedNames = InputNames

\* C17 witness: a chain of MAX_PARSE_ITER_LIMIT + 1 messages given in the
\* order in which each message comes before the one it holds has been
\* resolved.
C17_Witness ==
    /\ genPc = "ok"
    /\ Len(messages) = MAX_PARSE_ITER_LIMIT + 1
    /\ Acyclic
    /\ Complete
    /\ \A i \in 1..(Len(messages) - 1) :
         DependsOn(ParsedFullName(messages[i])) = {ParsedFullName(messages[i + 1])}
    /\ ResolvedNames = InputNames
    /\ Cardinality(InputNames) = Len(messages)

\* The text digested for a message, by the procedure of C14.
DigestText(parsed, graph) == DigestOf(parsed, graph, Fuel(graph)).md5

\* C16: when the call has returned, the md5sum of every resolved service is
\* one digest of the request's text followed directly by the response's text,
\* each built as for a message and without a newline at its end.
C16_ServiceMd5 ==
    genPc = "ok" =>
      \A i \in 1..Len(resolved_services) :
        resolved_services[i].md5sum
          = Md5(DigestText(resolved_services[i].parsed.request_type, resolved_messages)
                  \o DigestText(resolved_services[i].parsed.response_type, resolved_messages))

\* C16 witness: a resolved service whose request holds a constant and two
\* fields and whose response holds a field of a message type; no newline
\* stands between the two texts.
C16_Witness ==
    /\ genPc = "ok"
    /\ \E i \in 1..Len(resolved_services) :
         LET s == resolved_services[i] IN
           /\ s.parsed.request_type.constants # <<>>
           /\ Len(s.parsed.request_type.fields) = 2
           /\ Len(s.parsed.response_type.fields) = 2
           /\ s.parsed.response_type.fields[2].field_type.field_type = "B"
           /\ Len(s.md5sum.md5) = 5 + 3
           /\ s.md5sum.md5[5] # NL
           /\ s.md5sum.md5[6] # NL

\* Some input message depends on a type that is missing from the input or
\* that lies on a dependency cycle.
Unresolvable ==
    \E a \in InputNames :
      \E b \in Dependencies(a) : b \notin InputNames \/ b \in Dependencies(b)

\* C18: if some input message depends, directly or transitively, on a type
\* that is missing or lies on a dependency cycle, the call does not return
\* Ok nor any failure other than the unresolved-dependencies error, and the
\* names of that error are the messages still unresolved, at least one.
C18_Claim ==
    Unresolvable =>
      /\ genPc \in {"messages", "err_unresolved"}
      /\ genPc = "err_unresolved" =>
           /\ msg_names # <<>>
           /\ msg_names = UnresolvedNames(unresolved_messages)

\* C19: no two resolved messages have the same full name: the entries of the
\* resolved set are in the strict order of their keys, and every entry's key
\* is the full name of its message.
C19_UniqueNames ==
    /\ \A i, j \in 1..Len(resolved_messages) :
         i < j => KeyLess(resolved_messages[i].key, resolved_messages[j].key)
    /\ \A i, j \in 1..Len(resolved_messages) :
         ParsedFullName(resolved_messages[i].value.parsed)
           = ParsedFullName(resolved_messages[j].value.parsed) => i = j
    /\ \A i \in 1..Len(resolved_messages) :
         resolved_messages[i].key = ParsedFullName(resolved_messages[i].value.parsed)

\* C19 witness: the call has returned for an input with two files of one
\* full name, and the second is the one in the result.
C19_Witness ==
    /\ genPc = "ok"
    /\ ~DistinctNames
    /\ Len(messages) = 3
    /\ Len(resolved_messages) = 2
    /\ \E i \in 1..Len(resolved_messages) :
         /\ resolved_messages[i].value.parsed # messages[1]
         /\ resolved_messages[i].key = ParsedFullName(messages[1])

\* The full names of the message types a message refers to.
FieldTypesOf(parsed) ==
    {FieldFullName(parsed.fields[j]) :
       j \in {k \in 1..Len(parsed.fields) :
                parsed.fields[k].field_type.field_type \notin Primitives}}

\* C25: a step that inserts a message finds every message type of its fields
\* in the resolved set already; after every step the resolved set is closed
\* under dependencies, and the call has not failed in MessageFile::resolve.
C25_Closed ==
    [][/\ resolved_messages' # resolved_messages
            => FieldTypesOf(JustResolved.parsed) \subseteq ResolvedNames
       /\ \A i \in 1..Len(resolved_messages') :
            \A t \in FieldTypesOf(resolved_messages'[i].value.parsed) :
              MapHas(resolved_messages', t)
       /\ genPc' # "err_message"]_vars

\* C25 witness: the first message of the input refers to another one; it
\* was put back and is now in the resolved set, after the other.
C25_Witness ==
    /\ messages # <<>>
    /\ DistinctNames
    /\ FieldTypesOf(messages[1]) # {}
    /\ MapHas(resolved_messages, ParsedFullName(messages[1]))
    /\ unresolved_messages # <<>>
    /\ \A i \in 1..Len(unresolved_messages) : unresolved_messages[i].seen_count > 0

\* ------------------------------------------------------------ claims (Time)
\* The Time or Duration whose nanoseconds are in 0..NANOS_PER_SEC - 1 and whose
\* total is total_secs * NANOS_PER_SEC + total_nsecs.
NormalSecs(total_secs, total_nsecs) == total_secs + (total_nsecs \div NANOS_PER_SEC)
NormalNsecs(total_nsecs) == total_nsecs % NANOS_PER_SEC

\* C28: t + d is the Time of the exact total of t and d when that total is
\* not negative and its seconds fit in u32, and Time{0, 0} when it is negative.
C28_Claim ==
    time_op = "add" =>
      LET secs == NormalSecs(time_self.secs + time_rhs.sec,
                             time_self.nsecs + time_rhs.nsec)
          nsecs == NormalNsecs(time_self.nsecs + time_rhs.nsec)
      IN  /\ secs \in U32 => time_out = [secs |-> secs, nsecs |-> nsecs]
          /\ secs < 0 => time_out = [secs |-> 0, nsecs |-> 0]

\* C29: a - b is the Duration of the exact difference of the totals of a and
\* b when the difference in seconds fits in i32.
C29_Claim ==
    time_op = "sub" =>
      LET sec == NormalSecs(time_self.secs - time_rhs.secs,
                            time_self.nsecs - time_rhs.nsecs)
          nsec == NormalNsecs(time_self.nsecs - time_rhs.nsecs)
      IN  (time_self.secs - time_rhs.secs \in I32 /\ sec \in I32) =>
            time_out = [sec |-> sec, nsec |-> nsec]


\* ------------------------------------------------- claims (termination)
\* The call has not run into the recursion of compute_md5sum that never
\* returns: the loop ends with the resolved set or with an error.
C30_Returns == genPc # "overflow"

\* The turns the loop has taken are at most the number of messages times the
\* limit of the seen counter.
C30_Bound == iterations <= Len(messages) * MAX_PARSE_ITER_LIMIT

\* C30: resolve_dependency_graph terminates on every finite input, with the
\* resolved set or with an error, after a number of iterations bounded by the
\* number of messages times the seen-counter limit.
C30_Claim == C30_Returns /\ C30_Bound

====
